---- MODULE Spec2Model ----
(***************************************************************************)
(* Patient form front-end: the FormPage component (form state, the two     *)
(* mutation handlers, submit and the navigation payload), the Predict view *)
(* (free-text features, one fetch per submit) and the request-body mapping *)
(* snippet (parseInt / parseFloat re-keying).                              *)
(*                                                                         *)
(* JavaScript strings that are only stored and compared are TLA+ strings.  *)
(* Strings that the code parses are sequences of one-character strings.    *)
(***************************************************************************)
EXTENDS Integers, Sequences, FiniteSets, TLC

(***************************************************************************)
(* Bounds of the model.                                                    *)
(***************************************************************************)
\* the visits input receives the decimal texts of 0..MaxVisits, or ""
MaxVisits == 0
\* number of submits of the Predict form within one run
MaxSubmits == 2

(***************************************************************************)
(* FormPage.jsx: the controls of the form.                                 *)
(***************************************************************************)
AgeOptionList == <<"40-50", "50-60", "60-70", "70-80", "80-90", "90-100">>

DiagnosisList ==
    <<"Circulatory", "Diabetes", "Digestive", "Injury",
      "Musculoskeletal", "Respiratory", "Other">>

\* the <option> values of the Glucose Test and of the A1C Test selects
TestOptions == {"", "high", "normal", "unknown"}

AgeOptions == {""} \cup {AgeOptionList[i] : i \in 1..Len(AgeOptionList)}

DiagnosisOptions == {DiagnosisList[i] : i \in 1..Len(DiagnosisList)}

DecimalText == [n \in 0..9 |->
    CASE n = 0 -> "0" [] n = 1 -> "1" [] n = 2 -> "2" [] n = 3 -> "3"
      [] n = 4 -> "4" [] n = 5 -> "5" [] n = 6 -> "6" [] n = 7 -> "7"
      [] n = 8 -> "8" [] n = 9 -> "9"]

\* what <input type="number"> reports as e.target.value
VisitsInputs == {""} \cup {DecimalText[n] : n \in 0..MaxVisits}

\* the name attribute of each control wired to handleChange
AgeControlName == "age"
VisitsControlName == "visits"
GlucoseControlName == "glucose"
A1CControlName == "a1c"

\* the fields of the data model (PatientFormInput)
FormFields == {"age", "visits", "diagnosis", "glucose", "aic"}

VARIABLES
    view,        \* the route rendered: "form" (/) or "results" (/results)
    formData,    \* FormPage's useState object
    navState,    \* location.state: <<>> (null) or <<[formData |-> ...]>>
    lastBranch   \* the branch the last handler of the form flow took

formVars == <<view, formData, navState, lastBranch>>

\* useState initial value
InitialFormData ==
    [age |-> "", visits |-> "", diagnosis |-> <<>>, glucose |-> "", aic |-> ""]

\* { ...prev, [name]: value }
Spread(prev, name, value) ==
    [k \in (DOMAIN prev) \cup {name} |-> IF k = name THEN value ELSE prev[k]]

\* Array.prototype.includes
Includes(arr, value) == \E i \in 1..Len(arr) : arr[i] = value

\* variant: the filter keeps the toggled value instead of dropping it
FilterOutInverted(arr, value) == SelectSeq(arr, LAMBDA d : d = value)

\* prev.diagnosis.filter((d) => d !== value)
FilterOut(arr, value) == SelectSeq(arr, LAMBDA d : d # value)

\* the branch of the updater of handleDiagnosisChange that applies
DiagnosisBranch(prev, value) ==
    IF Includes(prev["diagnosis"], value) THEN "removed"
    ELSE IF Len(prev["diagnosis"]) < 3 THEN "added"
    ELSE "ignored"

\* variant: the cap is tested with <= instead of <
ToggleDiagnosisOffByOne(prev, value) ==
    IF Includes(prev["diagnosis"], value)
    THEN Spread(prev, "diagnosis", FilterOut(prev["diagnosis"], value))
    ELSE IF Len(prev["diagnosis"]) <= 3
         THEN Spread(prev, "diagnosis", Append(prev["diagnosis"], value))
         ELSE prev

\* variant: the new value is put in front of the list
ToggleDiagnosisPrepend(prev, value) ==
    IF Includes(prev["diagnosis"], value)
    THEN Spread(prev, "diagnosis", FilterOut(prev["diagnosis"], value))
    ELSE IF Len(prev["diagnosis"]) < 3
         THEN Spread(prev, "diagnosis", <<value>> \o prev["diagnosis"])
         ELSE prev

\* variant: at the cap the oldest selection makes room for the new one
ToggleDiagnosisEvictOldest(prev, value) ==
    IF Includes(prev["diagnosis"], value)
    THEN Spread(prev, "diagnosis", FilterOut(prev["diagnosis"], value))
    ELSE IF Len(prev["diagnosis"]) < 3
         THEN Spread(prev, "diagnosis", Append(prev["diagnosis"], value))
         ELSE Spread(prev, "diagnosis",
                     Append(Tail(prev["diagnosis"]), value))

\* the updater passed to setFormData by handleDiagnosisChange
ToggleDiagnosis(prev, value) ==
    IF Includes(prev["diagnosis"], value)
    THEN Spread(prev, "diagnosis", FilterOut(prev["diagnosis"], value))
    ELSE IF Len(prev["diagnosis"]) < 3
         THEN Spread(prev, "diagnosis", Append(prev["diagnosis"], value))
         ELSE prev

FormInit ==
    /\ view = "form"
    /\ formData = InitialFormData
    /\ navState = <<>>
    /\ lastBranch = "mounted"

HandleChange(name, value) ==
    /\ view = "form"
    /\ formData' = Spread(formData, name, value)
    /\ lastBranch' = "changed"
    /\ UNCHANGED <<view, navState>>

ChangeAge == \E v \in AgeOptions : HandleChange(AgeControlName, v)
ChangeVisits == \E v \in VisitsInputs : HandleChange(VisitsControlName, v)
ChangeGlucose == \E v \in TestOptions : HandleChange(GlucoseControlName, v)
ChangeA1C == \E v \in TestOptions : HandleChange(A1CControlName, v)

HandleDiagnosisChange(value) ==
    /\ view = "form"
    /\ formData' = ToggleDiagnosis(formData, value)
    /\ lastBranch' = DiagnosisBranch(formData, value)
    /\ UNCHANGED <<view, navState>>

ClickDiagnosis == \E d \in DiagnosisOptions : HandleDiagnosisChange(d)

\* variant: navigate("/results") without the state option
FormHandleSubmitNoState ==
    /\ view = "form"
    /\ view' = "results"
    /\ navState' = <<>>
    /\ lastBranch' = "submitted"
    /\ UNCHANGED formData

\* handleSubmit of FormPage: navigate("/results", { state: { formData } })
FormHandleSubmit ==
    /\ view = "form"
    /\ view' = "results"
    /\ navState' = <<[formData |-> formData]>>
    /\ lastBranch' = "submitted"
    /\ UNCHANGED formData

\* <Link to="/"> of Results: FormPage mounts again with a fresh useState
BackToForm ==
    /\ view = "results"
    /\ view' = "form"
    /\ navState' = <<>>
    /\ formData' = InitialFormData
    /\ lastBranch' = "mounted"

(***************************************************************************)
(* Numbers and the string-to-number conversions of the request mappings.   *)
(* A number value is NaN, +/-Infinity or (-1)^neg * mant * 10^exp with     *)
(* mant free of trailing zeros.                                            *)
(***************************************************************************)
NaN == [kind |-> "NaN", neg |-> FALSE, mant |-> 0, exp |-> 0]

Infinity(neg) == [kind |-> "Infinity", neg |-> neg, mant |-> 0, exp |-> 0]

RECURSIVE Pow10(_)
Pow10(n) == IF n <= 0 THEN 1 ELSE 10 * Pow10(n - 1)

RECURSIVE Finite(_, _, _)
Finite(neg, mant, exp) ==
    IF mant = 0 THEN [kind |-> "number", neg |-> neg, mant |-> 0, exp |-> 0]
    ELSE IF mant % 10 = 0 THEN Finite(neg, mant \div 10, exp + 1)
    ELSE [kind |-> "number", neg |-> neg, mant |-> mant, exp |-> exp]

Digits == {DecimalText[n] : n \in 0..9}

DigitValue(c) == CHOOSE n \in 0..9 : DecimalText[n] = c

WhiteSpace == {" ", "\t", "\n"}

\* least j >= i such that s[j] is not in chars (Len(s) + 1 if there is none)
SkipWhile(s, i, chars) ==
    CHOOSE j \in i..(Len(s) + 1) :
        /\ j = Len(s) + 1 \/ s[j] \notin chars
        /\ \A k \in i..(j - 1) : s[k] \in chars

\* the value of the decimal digits s[i..j-1]
RECURSIVE DigitsValue(_, _, _)
DigitsValue(s, i, j) ==
    IF j <= i THEN 0
    ELSE 10 * DigitsValue(s, i, j - 1) + DigitValue(s[j - 1])

StartsWith(s, i, lit) ==
    /\ Len(s) >= i + Len(lit) - 1
    /\ \A k \in 1..Len(lit) : s[i + k - 1] = lit[k]

InfinityText == <<"I", "n", "f", "i", "n", "i", "t", "y">>

\* the longest prefix of s from position i that is a StrDecimalLiteral:
\* its value and the position after it (value NaN if there is none)
ScanDecimal(s, i) ==
    LET signed == i <= Len(s) /\ s[i] \in {"+", "-"}
        neg    == signed /\ s[i] = "-"
        p      == IF signed THEN i + 1 ELSE i
        q      == SkipWhile(s, p, Digits)
        hasDot == q <= Len(s) /\ s[q] = "."
        r      == IF hasDot THEN SkipWhile(s, q + 1, Digits) ELSE q
        nInt   == q - p
        nFrac  == IF hasDot THEN r - (q + 1) ELSE 0
        hasE   == r <= Len(s) /\ s[r] \in {"e", "E"}
        eSign  == r + 1 <= Len(s) /\ s[r + 1] \in {"+", "-"}
        ed     == IF eSign THEN r + 2 ELSE r + 1
        ee     == IF hasE THEN SkipWhile(s, ed, Digits) ELSE ed
        expOK  == hasE /\ ee > ed
        eMag   == IF expOK THEN DigitsValue(s, ed, ee) ELSE 0
        eVal   == IF eSign /\ s[r + 1] = "-" THEN 0 - eMag ELSE eMag
        mant   == DigitsValue(s, p, q) * Pow10(nFrac)
                    + (IF hasDot THEN DigitsValue(s, q + 1, r) ELSE 0)
    IN  IF StartsWith(s, p, InfinityText)
        THEN [value |-> Infinity(neg), end |-> p + Len(InfinityText)]
        ELSE IF nInt = 0 /\ nFrac = 0
        THEN [value |-> NaN, end |-> i]
        ELSE [value |-> Finite(neg, mant, eVal - nFrac),
              end |-> IF expOK THEN ee ELSE r]

\* Number(string); the 0x / 0o / 0b literals are left out: the texts of the
\* model contain none of these prefixes
Number(s) ==
    LET a    == SkipWhile(s, 1, WhiteSpace)
        b    == CHOOSE j \in 0..Len(s) :
                    /\ j = 0 \/ s[j] \notin WhiteSpace
                    /\ \A k \in (j + 1)..Len(s) : s[k] \in WhiteSpace
        scan == ScanDecimal(s, a)
    IN  IF a > Len(s) THEN Finite(FALSE, 0, 0)
        ELSE IF scan.end = b + 1 THEN scan.value
        ELSE NaN

\* variant: the text is coerced with Number() instead of parsed
parseFloatByCoercion(s) == Number(s)

\* parseFloat(string)
parseFloat(s) == ScanDecimal(s, SkipWhile(s, 1, WhiteSpace)).value

\* parseInt(string, 10)
parseInt(s) ==
    LET i      == SkipWhile(s, 1, WhiteSpace)
        signed == i <= Len(s) /\ s[i] \in {"+", "-"}
        p      == IF signed THEN i + 1 ELSE i
        q      == SkipWhile(s, p, Digits)
    IN  IF q = p THEN NaN
        ELSE Finite(signed /\ s[i] = "-", DigitsValue(s, p, q), 0)

\* String.prototype.split(",")
Split(s) ==
    LET commas == {i \in 1..Len(s) : s[i] = ","}
        pos(k) == IF k = 0 THEN 0
                  ELSE IF k = Cardinality(commas) + 1 THEN Len(s) + 1
                  ELSE CHOOSE i \in commas :
                           Cardinality({j \in commas : j <= i}) = k
    IN  [k \in 1..(Cardinality(commas) + 1) |->
            SubSeq(s, pos(k - 1) + 1, pos(k) - 1)]

JsonNull == [kind |-> "null", neg |-> FALSE, mant |-> 0, exp |-> 0]

\* JSON.stringify of a number: NaN and the infinities are written as null
JsonNumber(v) == IF v.kind = "number" THEN v ELSE JsonNull

(***************************************************************************)
(* The request-body snippet (POST /submit).                                *)
(***************************************************************************)
\* the texts of the option values of the two test selects
Chars == [s \in TestOptions |->
    CASE s = "" -> <<>>
      [] s = "high" -> <<"h", "i", "g", "h">>
      [] s = "normal" -> <<"n", "o", "r", "m", "a", "l">>
      [] s = "unknown" -> <<"u", "n", "k", "n", "o", "w", "n">>]

FormTestTexts == {Chars[s] : s \in TestOptions}

\* texts that are not option values of the form
OtherTestTexts ==
    {<<"7", ".", "5">>, <<" ", "1", "e", "2", "x">>, <<"-", ".", "5", "0">>}

VisitsTexts == {<<>>} \cup {<<DecimalText[n]>> : n \in 0..MaxVisits}
                 \cup {<<"1", "2", "a">>}

DiagnosesArrays == {<<>>, <<"Diabetes">>, <<"Diabetes", "Injury", "Other">>}

VARIABLES
    selectedAge, totalVisits, selectedDiagnosesArray,
    glucoseValue, a1cValue,   \* the free identifiers the snippet reads
    body,                     \* const body
    wire,                     \* JSON.stringify(body) handed to fetch
    snippetPc                 \* position in the snippet

bodyVars == <<selectedAge, totalVisits, selectedDiagnosesArray,
              glucoseValue, a1cValue, body, wire, snippetPc>>

NoBody ==
    [age |-> "", total_visits |-> NaN, diagnoses |-> <<>>,
     glucose_test |-> NaN, a1c_test |-> NaN]

\* const body = { ... }
MakeBody(age, visits, diagnoses, glucose, a1c) ==
    [age |-> age,
     total_visits |-> parseInt(visits),
     diagnoses |-> diagnoses,
     glucose_test |-> parseFloat(glucose),
     a1c_test |-> parseFloat(a1c)]

\* JSON.stringify(body)
StringifyBody(b) ==
    [age |-> b.age,
     total_visits |-> JsonNumber(b.total_visits),
     diagnoses |-> b.diagnoses,
     glucose_test |-> JsonNumber(b.glucose_test),
     a1c_test |-> JsonNumber(b.a1c_test)]

BodyInit ==
    /\ selectedAge \in AgeOptions
    /\ totalVisits \in VisitsTexts
    /\ selectedDiagnosesArray \in DiagnosesArrays
    /\ glucoseValue \in FormTestTexts \cup OtherTestTexts
    /\ a1cValue \in FormTestTexts \cup OtherTestTexts
    /\ body = NoBody
    /\ wire = NoBody
    /\ snippetPc = "start"

BodyIdle ==
    /\ selectedAge = ""
    /\ totalVisits = <<>>
    /\ selectedDiagnosesArray = <<>>
    /\ glucoseValue = <<>>
    /\ a1cValue = <<>>
    /\ body = NoBody
    /\ wire = NoBody
    /\ snippetPc = "start"

BuildBody ==
    /\ snippetPc = "start"
    /\ body' = MakeBody(selectedAge, totalVisits, selectedDiagnosesArray,
                        glucoseValue, a1cValue)
    /\ snippetPc' = "built"
    /\ UNCHANGED <<selectedAge, totalVisits, selectedDiagnosesArray,
                   glucoseValue, a1cValue, wire>>

\* fetch("http://localhost:8000/submit", { ..., body: JSON.stringify(body) })
SnippetFetch ==
    /\ snippetPc = "built"
    /\ wire' = StringifyBody(body)
    /\ snippetPc' = "fetching"
    /\ UNCHANGED <<selectedAge, totalVisits, selectedDiagnosesArray,
                   glucoseValue, a1cValue, body>>

SnippetStep(from, to) ==
    /\ snippetPc = from
    /\ snippetPc' = to
    /\ UNCHANGED <<selectedAge, totalVisits, selectedDiagnosesArray,
                   glucoseValue, a1cValue, body, wire>>

\* await fetch(...) resolves with a response / rejects
SnippetFetchResolve == SnippetStep("fetching", "parsing")
SnippetFetchReject == SnippetStep("fetching", "failed")
\* await res.json() resolves (console.log follows) / rejects
SnippetJsonResolve == SnippetStep("parsing", "logged")
SnippetJsonReject == SnippetStep("parsing", "failed")

(***************************************************************************)
(* Predict.js: the Predict view.                                           *)
(***************************************************************************)
\* texts typed in the features input
FeatureInputs == {<<>>, <<"1", ",", "2">>, <<"3", ",", "x">>}

\* values of data.prediction; Undefined when the parsed JSON has no such key
Undefined == "undefined"
Predictions == {"0", "1"}

VARIABLES
    features,   \* useState("")
    result,     \* useState("")
    calls       \* the invocations of handleSubmit, in order of submit: the
                \* state of the render each closes over, the request body,
                \* the position in the handler and the prediction received

predictVars == <<features, result, calls>>

vars == <<formVars, bodyVars, predictVars>>

\* body: JSON.stringify({ features: features.split(",").map(Number) })
FeaturesBody(text) ==
    LET parts == Split(text)
    IN  [features |-> [k \in 1..Len(parts) |-> JsonNumber(Number(parts[k]))]]

PredictInit ==
    /\ features = <<>>
    /\ result = ""
    /\ calls = <<>>

PredictIdle == PredictInit

\* {result && <h3>Prediction: {result}</h3>}
Displayed == IF result = "" \/ result = Undefined THEN "" ELSE result

InFlight == {i \in 1..Len(calls) : calls[i].pc \in {"fetch", "json"}}

\* onChange of the text input
SetFeatures(text) ==
    /\ features' = text
    /\ UNCHANGED <<result, calls>>

TypeFeatures == \E text \in FeatureInputs : SetFeatures(text)

\* handleSubmit up to its first await: the request is sent
PredictHandleSubmit ==
    /\ Len(calls) < MaxSubmits
    /\ calls' = Append(calls, [scope |-> [features |-> features,
                                           result |-> result],
                               body |-> FeaturesBody(features),
                               pc |-> "fetch", prediction |-> Undefined])
    /\ UNCHANGED <<features, result>>

\* await fetch(...) resolves with a response (of any status)
FetchResolve(i) ==
    /\ calls[i].pc = "fetch"
    /\ calls' = [calls EXCEPT ![i].pc = "json"]
    /\ UNCHANGED <<features, result>>

\* variant: a catch clause that shows a message in place of the prediction
FetchRejectShowsMessage(i) ==
    /\ calls[i].pc = "fetch"
    /\ calls' = [calls EXCEPT ![i].pc = "failed"]
    /\ result' = "Error"
    /\ UNCHANGED features

\* await fetch(...) rejects: handleSubmit ends with an unhandled rejection
FetchReject(i) ==
    /\ calls[i].pc = "fetch"
    /\ calls' = [calls EXCEPT ![i].pc = "failed"]
    /\ UNCHANGED <<features, result>>

\* await response.json() resolves: setResult(data.prediction)
JsonResolve(i, prediction) ==
    /\ calls[i].pc = "json"
    /\ calls' = [calls EXCEPT ![i].pc = "done", ![i].prediction = prediction]
    /\ result' = prediction
    /\ UNCHANGED features

\* await response.json() rejects: handleSubmit ends with an unhandled rejection
JsonReject(i) ==
    /\ calls[i].pc = "json"
    /\ calls' = [calls EXCEPT ![i].pc = "failed"]
    /\ UNCHANGED <<features, result>>

(***************************************************************************)
(* Specifications.                                                         *)
(***************************************************************************)
Init == FormInit /\ BodyIdle /\ PredictIdle

Next ==
    \/ ChangeAge /\ UNCHANGED <<bodyVars, predictVars>>
    \/ ChangeVisits /\ UNCHANGED <<bodyVars, predictVars>>
    \/ ChangeGlucose /\ UNCHANGED <<bodyVars, predictVars>>
    \/ ChangeA1C /\ UNCHANGED <<bodyVars, predictVars>>
    \/ ClickDiagnosis /\ UNCHANGED <<bodyVars, predictVars>>
    \/ FormHandleSubmit /\ UNCHANGED <<bodyVars, predictVars>>
    \/ BackToForm /\ UNCHANGED <<bodyVars, predictVars>>

\* the FormPage / Results flow
Spec == Init /\ [][Next]_vars

InitBody == FormInit /\ BodyInit /\ PredictIdle

NextBody ==
    \/ BuildBody /\ UNCHANGED <<formVars, predictVars>>
    \/ SnippetFetch /\ UNCHANGED <<formVars, predictVars>>
    \/ SnippetFetchResolve /\ UNCHANGED <<formVars, predictVars>>
    \/ SnippetFetchReject /\ UNCHANGED <<formVars, predictVars>>
    \/ SnippetJsonResolve /\ UNCHANGED <<formVars, predictVars>>
    \/ SnippetJsonReject /\ UNCHANGED <<formVars, predictVars>>

\* the request-body snippet, over all its inputs
SpecBody == InitBody /\ [][NextBody]_vars

InitPredict == FormInit /\ BodyIdle /\ PredictInit

NextPredict ==
    \/ TypeFeatures /\ UNCHANGED <<formVars, bodyVars>>
    \/ PredictHandleSubmit /\ UNCHANGED <<formVars, bodyVars>>
    \/ \E i \in 1..Len(calls) : FetchResolve(i) /\ UNCHANGED <<formVars, bodyVars>>
    \/ \E i \in 1..Len(calls) : FetchReject(i) /\ UNCHANGED <<formVars, bodyVars>>
    \/ \E i \in 1..Len(calls) : \E p \in Predictions \cup {Undefined} :
           JsonResolve(i, p) /\ UNCHANGED <<formVars, bodyVars>>
    \/ \E i \in 1..Len(calls) : JsonReject(i) /\ UNCHANGED <<formVars, bodyVars>>

\* the Predict view
SpecPredict == InitPredict /\ [][NextPredict]_vars

(***************************************************************************)
(* Properties of the FormPage / Results flow (Spec).                       *)
(***************************************************************************)
\* C1: from the initial form state, after any sequence of diagnosis toggles
\* interleaved with generic field updates, at most 3 diagnoses are selected
DiagnosisAtMostThree == Len(formData["diagnosis"]) <= 3

\* a fourth toggle was attempted at the cap after other fields were filled in
CapReachedAfterUpdates ==
    /\ lastBranch = "ignored"
    /\ Len(formData["diagnosis"]) = 3
    /\ formData["age"] = "60-70"
    /\ formData["visits"] = "0"

\* C2: toggling a selected value always succeeds, whatever the count: the new
\* list is the old one without exactly that value, the others kept in order
ToggleOffRemovesExactlyThat ==
    [][\A d \in DiagnosisOptions :
         (Includes(formData["diagnosis"], d) /\ HandleDiagnosisChange(d)) =>
             LET old == formData["diagnosis"]
                 new == formData'["diagnosis"]
             IN  /\ Len(new) = Len(old) - 1
                 /\ \A k \in 1..Len(new) : new[k] # d
                 /\ \A i \in 1..Len(old) : \A j \in 1..Len(old) :
                        (i < j /\ old[i] # d /\ old[j] # d) =>
                            \E a \in 1..Len(new) : \E b \in 1..Len(new) :
                                a < b /\ new[a] = old[i] /\ new[b] = old[j]
                 /\ \A i \in 1..Len(old) :
                        old[i] # d => \E a \in 1..Len(new) : new[a] = old[i]]_vars

\* one of three selected values was toggled off, the other two remain
RemovedFromFull ==
    /\ lastBranch = "removed"
    /\ formData["diagnosis"] = <<"Diabetes", "Other">>

\* C3: with fewer than 3 selected, toggling an unselected value appends
\* exactly that value at the end; earlier selections keep their order
ToggleOnAppends ==
    [][\A d \in DiagnosisOptions :
         (/\ Len(formData["diagnosis"]) < 3
          /\ ~Includes(formData["diagnosis"], d)
          /\ HandleDiagnosisChange(d)) =>
             /\ Len(formData'["diagnosis"]) = Len(formData["diagnosis"]) + 1
             /\ formData'["diagnosis"][Len(formData'["diagnosis"])] = d
             /\ \A k \in 1..Len(formData["diagnosis"]) :
                    formData'["diagnosis"][k] = formData["diagnosis"][k]]_vars

\* three values were added, in an order that is not the order of the checkboxes
AddedInSelectionOrder ==
    /\ lastBranch = "added"
    /\ formData["diagnosis"] = <<"Diabetes", "Injury", "Circulatory">>

\* C4: with exactly 3 selected, toggling an unselected fourth value leaves the
\* whole form state, the route and the navigation payload unchanged
FourthToggleIgnored ==
    [][\A d \in DiagnosisOptions :
         (/\ Len(formData["diagnosis"]) = 3
          /\ ~Includes(formData["diagnosis"], d)
          /\ HandleDiagnosisChange(d)) =>
             /\ formData' = formData
             /\ view' = view
             /\ navState' = navState]_vars

\* the fourth toggle of the example was dropped
FourthToggleDropped ==
    /\ lastBranch = "ignored"
    /\ formData["diagnosis"] = <<"Diabetes", "Injury", "Other">>
    /\ formData["glucose"] = "high"

\* the step of handleSubmit of FormPage
FormSubmitStep == FormHandleSubmit /\ UNCHANGED <<bodyVars, predictVars>>

\* C5: submit is enabled in every form state, and it navigates to the results
\* view with a payload equal to the form state at that moment; submitting the
\* initial state carries age, visits, glucose, aic empty and diagnosis empty
SubmitAlwaysCarriesFormState ==
    /\ [](view = "form" => ENABLED FormSubmitStep)
    /\ [][FormHandleSubmit =>
            /\ view' = "results"
            /\ Len(navState') = 1
            /\ navState'[1].formData = formData
            /\ (formData = InitialFormData =>
                   /\ navState'[1].formData["age"] = ""
                   /\ navState'[1].formData["visits"] = ""
                   /\ navState'[1].formData["glucose"] = ""
                   /\ navState'[1].formData["aic"] = ""
                   /\ navState'[1].formData["diagnosis"] = <<>>)]_vars

\* the untouched form was submitted
EmptyFormSubmitted ==
    /\ view = "results"
    /\ lastBranch = "submitted"
    /\ navState = <<[formData |-> InitialFormData]>>

\* C6: the form state has exactly the five data-model fields, the A1C Test
\* control writes aic and the Glucose Test control writes glucose, and a
\* following submit carries that aic in the navigation payload
ControlsWriteTheirFields ==
    /\ [](DOMAIN formData = FormFields)
    /\ [][\A v \in TestOptions :
            /\ HandleChange(A1CControlName, v) => formData'["aic"] = v
            /\ HandleChange(GlucoseControlName, v) => formData'["glucose"] = v]_vars
    /\ [][FormHandleSubmit => navState'[1].formData["aic"] = formData["aic"]]_vars

(***************************************************************************)
(* Properties of the request-body snippet (SpecBody).                      *)
(***************************************************************************)
\* C8: for every option value of the test selects ("", "high", "normal",
\* "unknown") the parse of glucose_test and a1c_test yields NaN
FormTestValuesParseToNaN ==
    snippetPc # "start" =>
        /\ glucoseValue \in FormTestTexts => body.glucose_test = NaN
        /\ a1cValue \in FormTestTexts => body.a1c_test = NaN

\* a body was built from option values, the empty one included
BodyBuiltFromOptions ==
    /\ snippetPc = "built"
    /\ glucoseValue = Chars["high"]
    /\ a1cValue = Chars[""]
    /\ body.glucose_test = NaN
    /\ body.a1c_test = NaN
    /\ totalVisits = <<"1", "2", "a">>
    /\ body.total_visits = Finite(FALSE, 12, 0)

(***************************************************************************)
(* Properties of the Predict view (SpecPredict).                           *)
(***************************************************************************)
\* C7: at most one request issued by handleSubmit is in flight at any time
AtMostOneInFlight == Cardinality(InFlight) <= 1

PredictSubmitStep == PredictHandleSubmit /\ UNCHANGED <<formVars, bodyVars>>

Fails(i) == FetchReject(i) \/ JsonReject(i)

\* C9 as stated: when a request is rejected or its response fails to parse,
\* result and features are what they were before that submit
FailureLeavesPreSubmitView ==
    [][\A i \in 1..Len(calls) :
         Fails(i) =>
             /\ result' = calls[i].scope.result
             /\ features' = calls[i].scope.features]_vars

\* C9 amended: the failing handler ends without setting anything: result and
\* features are what they were just before the failure, the call is left
\* failed with nothing else recorded, and a later submit is still possible
FailureChangesNothing ==
    /\ [][\A i \in 1..Len(calls) :
            Fails(i) =>
                /\ result' = result
                /\ features' = features
                /\ calls' = [calls EXCEPT ![i].pc = "failed"]]_vars
    /\ []((Len(calls) < MaxSubmits /\ \E i \in 1..Len(calls) : calls[i].pc = "failed")
            => ENABLED PredictSubmitStep)

\* a request failed while an earlier prediction was displayed
FailedWithResultShown ==
    /\ Len(calls) = 2
    /\ calls[1].pc = "done"
    /\ calls[2].pc = "failed"
    /\ result = "1"
    /\ features = <<"3", ",", "x">>

\* C10: once every request has been answered successfully, the prediction
\* shown is the one returned for the most recently submitted features
LatestPredictionShown ==
    (calls # <<>> /\ \A i \in 1..Len(calls) : calls[i].pc = "done")
        => result = calls[Len(calls)].prediction
====
